---- MODULE Spec2Model ----
(***************************************************************************)
(* Model of the render endpoint of the VideoAUTO backend                   *)
(* (src/Backend/app/api/render.py, render_video): pre-flight lookups, the  *)
(* temporary scope, the construction of the ffmpeg command and its filter  *)
(* graph, the engine subprocess with its timeout, the audit log and the    *)
(* result returned to the caller.                                          *)
(*                                                                         *)
(* Numbers: a playback rate is a positive rational [n, d] (n/d), so that   *)
(* halving and doubling are exact as they are for binary floats; a start   *)
(* time is an integer number of microseconds; a gain is in whole decibels. *)
(***************************************************************************)
EXTENDS Integers, Sequences, FiniteSets, TLC

VARIABLES
    pc,             \* position of the handler in render_video
    env,            \* what the call finds: project row, ffmpeg on PATH
    payload,        \* the VideoRenderRequest
    tempDir,        \* TRUE while the TemporaryDirectory exists
    tempFiles,      \* names of the files inside the temporary directory
    everTemp,       \* history: every temporary file the call has written
    audio_paths,    \* the clips loaded from storage (render.py:191-207)
    outputDir,      \* TRUE once DATA_ROOT/<project>/rendered exists
    outputFile,     \* TRUE once the output media file exists
    ffmpeg_cmd,     \* the assembled command
    logExists,      \* TRUE once the audit log file was created
    log,            \* the audit log, a sequence of entries
    logWritable,    \* FALSE once appending to the audit log would raise
    engine,         \* "none", "running", "exited", "killed"
    engineStarts,   \* how many times the engine process was started
    returncode,     \* exit code of the engine, -1 while there is none
    result,         \* the structured result returned, or NoResult
    exc,            \* the exception that left the handler, or "none"
    trace,          \* history: the states of the result state machine visited
    probe,          \* what the duration probe did, "none" before it ran
    calls,          \* the render calls the server process has received
    loop,           \* the call whose coroutine holds the event loop, 0 if none
    runs,           \* the calls in progress in several server processes
    arg,            \* the function of the subtitle / tempo code applied, and its input
    ret             \* what that function returned, or how far its loop has come

vars == <<pc, env, payload, tempDir, tempFiles, everTemp, audio_paths, outputDir,
          outputFile, ffmpeg_cmd, logExists, log, logWritable, engine,
          engineStarts, returncode, result, exc, trace, probe, calls, loop,
          runs, arg, ret>>

----------------------------------------------------------------------------
(* Bounds of the model *)

MaxSegments == 2
MaxClips == 2
MaxCalls == 3

----------------------------------------------------------------------------
(* The request space *)

Rate(n, d) == [n |-> n, d |-> d]

\* VideoSegment: sourceStartTime, sourceEndTime (seconds), playbackRate
SegmentPool ==
    { [sourceStartTime |-> 0,  sourceEndTime |-> 5,  playbackRate |-> Rate(1, 1)],
      [sourceStartTime |-> 10, sourceEndTime |-> 12, playbackRate |-> Rate(1, 2)],
      [sourceStartTime |-> 20, sourceEndTime |-> 28, playbackRate |-> Rate(4, 1)] }

\* the ids the storage service holds
StoredFiles == {"v1", "a1", "a2"}

\* AudioClip: id, startTime (microseconds), volumeDb
ClipPool ==
    { [id |-> "a1",    startTime |-> 1200900, volumeDb |-> 0],
      [id |-> "a2",    startTime |-> 3200000, volumeDb |-> -6],
      [id |-> "ghost", startTime |-> 1500000, volumeDb |-> 0] }

CuePool == { [startTime |-> "00:00:01,000", endTime |-> "00:00:02,500", text |-> "hi"] }

NoBox == [enabled |-> FALSE, x |-> 0, y |-> 0, width |-> 0, height |-> 0]
BoxPool == { NoBox, [enabled |-> TRUE, x |-> 10, y |-> 80, width |-> 80, height |-> 15] }

\* Values the request model of render.py:24-33 accepts although the data
\* model excludes them: the fields are untyped dictionaries, so a playback
\* rate that is not positive and a box outside the canvas both reach the
\* handler.
BadSegmentPool ==
    { [sourceStartTime |-> 0, sourceEndTime |-> 5, playbackRate |-> Rate(0, 1)],
      [sourceStartTime |-> 0, sourceEndTime |-> 5, playbackRate |-> Rate(-1, 1)] }
BadBoxPool == { [enabled |-> TRUE, x |-> 150, y |-> 80, width |-> 80, height |-> 15] }

SeqsUpTo(S, n) == UNION { [1..k -> S] : k \in 0..n }

Payloads ==
    [ video_file_id     : {"v1", "v_missing"},
      video_segments    : SeqsUpTo(SegmentPool, MaxSegments),
      subtitles         : {<<>>} \cup { <<c>> : c \in CuePool },
      audio_files       : SeqsUpTo(ClipPool, MaxClips),
      hardsub_cover_box : BoxPool,
      master_volume_db  : {0, 3},
      video_frame_url   : BOOLEAN ]     \* TRUE: a "data:image/png;base64," url

InvalidSegment(seg) == seg.playbackRate.n <= 0
InvalidBox(box) ==
    box.enabled /\ \E v \in {box.x, box.y, box.width, box.height} : v \notin 0..100
InvalidRequest(p) ==
    \/ \E i \in 1..Len(p.video_segments) : InvalidSegment(p.video_segments[i])
    \/ InvalidBox(p.hardsub_cover_box)

InvalidPayloads ==
    { p \in [ video_file_id     : {"v1", "v_missing"},
              video_segments    : SeqsUpTo(BadSegmentPool \cup
                                           {[sourceStartTime |-> 0, sourceEndTime |-> 5,
                                             playbackRate |-> Rate(1, 1)]}, MaxSegments),
              subtitles         : {<<>>},
              audio_files       : SeqsUpTo({[id |-> "a1", startTime |-> 0, volumeDb |-> 0]}, 1),
              hardsub_cover_box : {NoBox} \cup BadBoxPool,
              master_volume_db  : {0},
              video_frame_url   : {FALSE} ] : InvalidRequest(p) }

Envs == [ project : BOOLEAN, ffmpeg_path : BOOLEAN ]

NoResult == [status |-> "none"]
NoCmd == [built |-> FALSE]

\* the render calls one server process is sent, and what it has done with each
Calls == 1..MaxCalls
NoCalls == [c \in Calls |-> "idle"]
NoRuns == <<>>
NoArg == [fn |-> "none"]
NoRet == [done |-> FALSE, raised |-> FALSE, val |-> <<>>]

\* nothing is in progress in other server processes, and none of the
\* functions followed on their own has been applied
InitElsewhere ==
    /\ runs = NoRuns
    /\ arg = NoArg
    /\ ret = NoRet

\* the handler before its first step, whatever the request
InitHandler ==
    /\ pc = "preflight"
    /\ tempDir = FALSE
    /\ tempFiles = {}
    /\ everTemp = {}
    /\ audio_paths = <<>>
    /\ outputDir = FALSE
    /\ outputFile = FALSE
    /\ ffmpeg_cmd = NoCmd
    /\ logExists = FALSE
    /\ log = <<>>
    /\ logWritable = TRUE
    /\ engine = "none"
    /\ engineStarts = 0
    /\ returncode = -1
    /\ result = NoResult
    /\ exc = "none"
    /\ trace = <<>>
    /\ probe = "none"

\* the state of a call before its first step, whatever the request
InitCall ==
    /\ InitHandler
    /\ calls = NoCalls
    /\ loop = 0
    /\ InitElsewhere

Init ==
    /\ env \in Envs
    /\ payload \in Payloads
    /\ InitCall

----------------------------------------------------------------------------
(* The temporary scope: render.py:176.  Leaving the with-block, by return  *)
(* or by exception, removes the directory and everything in it.            *)
\* faulty variant of LeaveTempScope: a directory made with mkdtemp and
\* never removed
LeaveTempScopeKeepsFiles ==
    /\ tempDir' = tempDir
    /\ tempFiles' = tempFiles


LeaveTempScope ==
    /\ tempDir' = FALSE
    /\ tempFiles' = {}

\* the temporary files the call writes, in the order it writes them
\* (render.py:179-214): input video, subtitle document, one file per clip
\* found in storage, overlay image
Loaded(i) == payload.audio_files[i].id \in StoredFiles

LoadedIdx == { i \in 1..Len(payload.audio_files) : Loaded(i) }

RECURSIVE SeqOfSet(_)
SeqOfSet(S) ==
    IF S = {} THEN <<>>
    ELSE LET m == CHOOSE x \in S : \A y \in S : x <= y
         IN <<m>> \o SeqOfSet(S \ {m})

\* audio_paths: a clip whose id storage does not have is skipped
\* (render.py:195-196); "index" is the enumerate() index of the request list
LoadAudio ==
    LET idx == SeqOfSet(LoadedIdx)
    IN [k \in 1..Len(idx) |->
          [ path       |-> <<"audio", idx[k] - 1>>,
            start_time |-> payload.audio_files[idx[k]].startTime,
            volume_db  |-> payload.audio_files[idx[k]].volumeDb ]]

TempFileOrder ==
    <<<<"input", 0>>>>
    \o (IF Len(payload.subtitles) > 0 THEN <<<<"subtitles.ass", 0>>>> ELSE <<>>)
    \o [k \in 1..Len(LoadAudio) |-> LoadAudio[k].path]
    \o (IF payload.video_frame_url THEN <<<<"frame_overlay.png", 0>>>> ELSE <<>>)

Range(s) == { s[i] : i \in 1..Len(s) }

----------------------------------------------------------------------------
(* Filter nodes.  A chain is one ';'-separated part of -filter_complex:    *)
(* the labels it consumes, its ','-separated filters, the labels it        *)
(* produces.  A label is <<name, index>>; a filter is [op, args].          *)

Chain(ins, filters, outs) == [ins |-> ins, filters |-> filters, outs |-> outs]
F(op, args) == [op |-> op, args |-> args]

InV(k) == <<"in:v", k>>          \* [k:v]
InA(k) == <<"in:a", k>>          \* [k:a]
SegV(i) == <<"seg_v", i>>        \* [seg{i}v]
SegA(i) == <<"seg_a", i>>        \* [seg{i}a]
ClipA(k) == <<"a", k>>           \* [a{k}]
L(name) == <<name, 0>>
MapSourceAudio == <<"0:a?", 0>>  \* -map 0:a?

\* 10^(db/20) printed with six decimals (render.py:377, 397, 405), in
\* millionths, for the gains the request space uses
LinearGain(db) ==
    CASE db = 0  -> 1000000
      [] db = -6 -> 501187
      [] db = 3  -> 1412538

\* faulty variant of StartTimeMs: round(start_time * 1000)
StartTimeMsRounded(start_time) == (start_time + 500) \div 1000

\* int(start_time * 1000) of a start time in microseconds
StartTimeMs(start_time) == start_time \div 1000

\* The tempo steps of one segment, render.py:330-349
RECURSIVE HalveWhileFast(_, _)
HalveWhileFast(r, acc) ==           \* while current_rate > 2.0
    IF r.n > 2 * r.d
    THEN HalveWhileFast(Rate(r.n, 2 * r.d), Append(acc, Rate(2, 1)))
    ELSE <<r, acc>>

RECURSIVE DoubleWhileSlow(_, _)
DoubleWhileSlow(r, acc) ==          \* while current_rate < 0.5
    IF 2 * r.n < r.d
    THEN DoubleWhileSlow(Rate(2 * r.n, r.d), Append(acc, Rate(1, 2)))
    ELSE <<r, acc>>

\* faulty variant of TempoSteps: an extreme rate is passed on as one step
TempoStepsSingle(rate) ==
    IF rate.n = rate.d THEN <<>> ELSE <<rate>>

\* faulty variant of TempoSteps: the remaining rate comes before the steps
\* of 2.0 and 0.5
TempoStepsRemainderFirst(rate) ==
    IF rate.n = rate.d THEN <<>>
    ELSE IF rate.d <= 2 * rate.n /\ rate.n <= 2 * rate.d
         THEN <<rate>>
    ELSE LET fast == HalveWhileFast(rate, <<>>)
             slow == DoubleWhileSlow(fast[1], fast[2])
         IN IF slow[1].n # slow[1].d
            THEN <<slow[1]>> \o slow[2]
            ELSE slow[2]

TempoSteps(rate) ==
    IF rate.n = rate.d THEN <<>>                                 \* rate == 1.0
    ELSE IF rate.d <= 2 * rate.n /\ rate.n <= 2 * rate.d
         THEN <<rate>>                                           \* 0.5 <= rate <= 2.0
    ELSE LET fast == HalveWhileFast(rate, <<>>)
             slow == DoubleWhileSlow(fast[1], fast[2])
         IN IF slow[1].n # slow[1].d
            THEN Append(slow[2], slow[1])
            ELSE slow[2]

\* a float has one value however it was computed: 4/2 is printed as 2/1
RECURSIVE Reduce(_)
Reduce(r) ==
    IF r.n % 2 = 0 /\ r.d % 2 = 0 THEN Reduce(Rate(r.n \div 2, r.d \div 2)) ELSE r

\* f"atempo={current_rate}", render.py:333, 340, 344, 348
Atempo(r) == F("atempo", <<Reduce(r).n, Reduce(r).d>>)

TempoFilters(rate) ==
    LET st == TempoSteps(rate)
    IN [k \in 1..Len(st) |-> Atempo(st[k])]

\* render.py:236-243
has_blur_region == payload.hardsub_cover_box.enabled
blur_region_params ==
    LET box == payload.hardsub_cover_box
    IN [ x |-> (box.x * 1920) \div 100, y |-> (box.y * 1080) \div 100,
         w |-> (box.width * 1920) \div 100, h |-> (box.height * 1080) \div 100 ]

\* render.py:245-251
video_filters ==
    << F("scale", <<1920, 1080>>), F("pad", <<1920, 1080>>), F("fps", <<30>>) >>
    \o (IF Len(payload.subtitles) > 0 THEN << F("ass", <<>>) >> ELSE <<>>)

basic_filters == SelectSeq(video_filters, LAMBDA f : f.op # "ass")
subtitle_filter == SelectSeq(video_filters, LAMBDA f : f.op = "ass")

\* render.py:253
use_filter_complex(paths) ==
    Len(paths) > 0 \/ payload.video_frame_url \/ has_blur_region

\* render.py:264-288: the video segment chains and the label they end in
VideoSegmentParts ==
    LET segs == payload.video_segments
        trims == [i \in 1..Len(segs) |->
                    Chain(<<InV(0)>>,
                          << F("trim", <<segs[i].sourceStartTime, segs[i].sourceEndTime>>),
                             F("setpts", <<segs[i].playbackRate.n, segs[i].playbackRate.d>>) >>,
                          <<SegV(i - 1)>>)]
    IN IF Len(segs) >= 1
       THEN IF Len(segs) > 1
            THEN [ chains |-> Append(trims,
                                Chain([i \in 1..Len(segs) |-> SegV(i - 1)],
                                      << F("concat", <<Len(segs), 1, 0>>) >>,
                                      <<L("raw_video")>>)),
                   stream |-> L("raw_video") ]
            ELSE [ chains |-> trims, stream |-> SegV(0) ]
       ELSE [ chains |-> <<>>, stream |-> InV(0) ]

\* the last chain of a part list is the one video_stream is still building;
\* "x[label];..." closes it
CloseWith(chains, label) ==
    [chains EXCEPT ![Len(chains)].outs = <<label>>]

AddFilter(chains, f) ==
    [chains EXCEPT ![Len(chains)].filters = Append(@, f)]

\* faulty variant of VideoStreamParts: video_filters taken whole, the ass
\* filter with them, before blur and overlay are added
VideoStreamPartsSubtitlesFirst(paths) ==
    LET s0 == << Chain(<<VideoSegmentParts.stream>>, video_filters, <<>>) >>
        p  == blur_region_params
        s1 == IF has_blur_region
              THEN CloseWith(s0, L("main"))
                   \o << Chain(<<L("main")>>, <<F("split", <<>>)>>, <<L("v1"), L("v2")>>),
                         Chain(<<L("v2")>>,
                               << F("crop", <<p.w, p.h, p.x, p.y>>), F("boxblur", <<20, 3>>) >>,
                               <<L("blurred")>>),
                         Chain(<<L("v1"), L("blurred")>>,
                               << F("overlay", <<p.x, p.y>>) >>, <<>>) >>
              ELSE s0
        s2 == IF payload.video_frame_url
              THEN CloseWith(s1, L("vtmp"))
                   \o << Chain(<<InV(1 + Len(paths))>>,
                               << F("scale", <<1920, 1080>>) >>, <<L("frame")>>),
                         Chain(<<L("vtmp"), L("frame")>>,
                               << F("overlay", <<0, 0>>) >>, <<>>) >>
              ELSE s1
    IN CloseWith(s2, L("vout"))

\* render.py:290-314: normalization, blur, overlay, subtitles, [vout]
VideoStreamParts(paths) ==
    LET s0 == << Chain(<<VideoSegmentParts.stream>>, basic_filters, <<>>) >>
        p  == blur_region_params
        s1 == IF has_blur_region
              THEN CloseWith(s0, L("main"))
                   \o << Chain(<<L("main")>>, <<F("split", <<>>)>>, <<L("v1"), L("v2")>>),
                         Chain(<<L("v2")>>,
                               << F("crop", <<p.w, p.h, p.x, p.y>>), F("boxblur", <<20, 3>>) >>,
                               <<L("blurred")>>),
                         Chain(<<L("v1"), L("blurred")>>,
                               << F("overlay", <<p.x, p.y>>) >>, <<>>) >>
              ELSE s0
        s2 == IF payload.video_frame_url
              THEN CloseWith(s1, L("vtmp"))
                   \o << Chain(<<InV(1 + Len(paths))>>,
                               << F("scale", <<1920, 1080>>) >>, <<L("frame")>>),
                         Chain(<<L("vtmp"), L("frame")>>,
                               << F("overlay", <<0, 0>>) >>, <<>>) >>
              ELSE s1
        s3 == IF Len(subtitle_filter) > 0
              THEN AddFilter(s2, subtitle_filter[1])
              ELSE s2
    IN CloseWith(s3, L("vout"))

\* render.py:321-364: the audio segment chains, built only inside
\* "if audio_paths:"
AudioSegmentParts ==
    LET segs == payload.video_segments
        trims == [i \in 1..Len(segs) |->
                    Chain(<<InA(0)>>,
                          << F("atrim", <<segs[i].sourceStartTime, segs[i].sourceEndTime>>),
                             F("asetpts", <<>>) >>
                          \o TempoFilters(segs[i].playbackRate),
                          <<SegA(i - 1)>>)]
    IN IF Len(segs) > 0
       THEN [ chains |-> Append(trims,
                           Chain([i \in 1..Len(segs) |-> SegA(i - 1)],
                                 << F("concat", <<Len(segs), 0, 1>>) >>,
                                 <<L("orig_audio")>>)),
              stream |-> L("orig_audio") ]
       ELSE [ chains |-> <<>>, stream |-> InA(0) ]

\* faulty variant of DelayChain: the input taken at the position of the
\* clip in the request list instead of its position among the loaded clips
DelayChainRequestIndex(paths, idx) ==
    LET ms == StartTimeMs(paths[idx].start_time)
    IN Chain(<<InA(paths[idx].path[2] + 1)>>,
             (IF paths[idx].volume_db # 0
              THEN << F("volume", <<LinearGain(paths[idx].volume_db)>>) >>
              ELSE <<>>)
             \o << F("adelay", <<ms, ms>>) >>,
             <<ClipA(idx)>>)

\* faulty variant of Amix: normalize left to the engine's default
AmixNormalized(inputs) ==
    [op |-> "amix", args |-> <<inputs>>, duration |-> "longest", normalize |-> 1]

\* render.py:391-393: amix=inputs=N:duration=longest:normalize=0
Amix(inputs) ==
    [op |-> "amix", args |-> <<inputs>>, duration |-> "longest", normalize |-> 0]

\* render.py:366-385: gain then delay of each loaded clip
DelayChain(paths, idx) ==
    LET ms == StartTimeMs(paths[idx].start_time)
    IN Chain(<<InA(idx)>>,
             (IF paths[idx].volume_db # 0
              THEN << F("volume", <<LinearGain(paths[idx].volume_db)>>) >>
              ELSE <<>>)
             \o << F("adelay", <<ms, ms>>) >>,
             <<ClipA(idx)>>)

\* render.py:389, 396: "if payload.master_volume_db"
MasterGainSet == payload.master_volume_db # 0

\* faulty variant of AudioParts: the mix written to [aout] even when the
\* master gain node follows and writes [aout] too
AudioPartsSameMixLabel(paths) ==
    IF Len(paths) > 0
    THEN LET base == AudioSegmentParts
             mix == Chain(<<base.stream>> \o [k \in 1..Len(paths) |-> ClipA(k)],
                          << Amix(Len(paths) + 1) >>,
                          <<L("aout")>>)
             delays == [k \in 1..Len(paths) |-> DelayChain(paths, k)]
         IN [ chains |-> base.chains \o delays \o <<mix>>
                         \o (IF MasterGainSet
                             THEN << Chain(<<L("aout")>>,
                                           << F("volume", <<LinearGain(payload.master_volume_db)>>) >>,
                                           <<L("aout")>>) >>
                             ELSE <<>>),
              audio_output_label |-> L("aout") ]
    ELSE IF MasterGainSet
    THEN [ chains |-> << Chain(<<InA(0)>>,
                               << F("volume", <<LinearGain(payload.master_volume_db)>>) >>,
                               <<L("aout")>>) >>,
           audio_output_label |-> L("aout") ]
    ELSE [ chains |-> <<>>, audio_output_label |-> MapSourceAudio ]

\* render.py:316-407: the audio parts and audio_output_label
AudioParts(paths) ==
    IF Len(paths) > 0
    THEN LET base == AudioSegmentParts
             mix_label == IF MasterGainSet THEN L("aout_mix") ELSE L("aout")
             mix == Chain(<<base.stream>> \o [k \in 1..Len(paths) |-> ClipA(k)],
                          << Amix(Len(paths) + 1) >>,
                          <<mix_label>>)
             delays == [k \in 1..Len(paths) |-> DelayChain(paths, k)]
         IN [ chains |-> base.chains \o delays \o <<mix>>
                         \o (IF MasterGainSet
                             THEN << Chain(<<mix_label>>,
                                           << F("volume", <<LinearGain(payload.master_volume_db)>>) >>,
                                           <<L("aout")>>) >>
                             ELSE <<>>),
              audio_output_label |-> L("aout") ]
    ELSE IF MasterGainSet
    THEN [ chains |-> << Chain(<<InA(0)>>,
                               << F("volume", <<LinearGain(payload.master_volume_db)>>) >>,
                               <<L("aout")>>) >>,
           audio_output_label |-> L("aout") ]
    ELSE [ chains |-> <<>>, audio_output_label |-> MapSourceAudio ]

\* The words of the command line after the program name.  A word is an
\* option or literal (its text), a file path, one video filter, the
\* serialized graph, or a stream label.
W(text) == [w |-> text, v |-> <<>>]
FileW(path) == [w |-> "file", v |-> path]
FilterW(f) == [w |-> "filter", v |-> f]
GraphW == [w |-> "graph", v |-> <<>>]
LabelW(l) == [w |-> "label", v |-> l]

\* render.py:422-429
EncodingArgs ==
    << W("-c:v"), W("libx264"), W("-preset"), W("medium"), W("-crf"), W("23"),
       W("-movflags"), W("+faststart"), W("-max_muxing_queue_size"), W("1024"),
       W("-c:a"), W("aac"), W("-b:a"), W("192k"), FileW(<<"output", 0>>) >>

\* render.py:223-229
InputArgs(paths) ==
    << W("-y"), W("-i"), FileW(<<"input", 0>>) >>
    \o [k \in 1..(2 * Len(paths)) |->
          IF k % 2 = 1 THEN W("-i") ELSE FileW(paths[k \div 2].path)]
    \o (IF payload.video_frame_url
        THEN << W("-i"), FileW(<<"frame_overlay.png", 0>>) >> ELSE <<>>)

\* render.py:256-407: filter_parts, the graph of the filter_complex path
FullGraph(paths) ==
    VideoSegmentParts.chains \o VideoStreamParts(paths) \o AudioParts(paths).chains

\* render.py:223-229 and 253-429: the inputs, then either -filter_complex
\* with its -map arguments, or the video filters appended as they are, one
\* word each (render.py:420: ffmpeg_cmd.extend(video_filters))
BuildCommand(paths) ==
    LET inputs == <<<<"input", 0>>>>
                  \o [k \in 1..Len(paths) |-> paths[k].path]
                  \o (IF payload.video_frame_url
                      THEN <<<<"frame_overlay.png", 0>>>> ELSE <<>>)
    IN IF use_filter_complex(paths)
       THEN [ built          |-> TRUE,
              inputs         |-> inputs,
              filter_complex |-> TRUE,
              graph          |-> FullGraph(paths),
              maps           |-> << L("vout"), AudioParts(paths).audio_output_label >>,
              plain_args     |-> <<>>,
              args           |-> InputArgs(paths)
                                 \o << W("-filter_complex"), GraphW,
                                       W("-map"), LabelW(L("vout")),
                                       W("-map"), LabelW(AudioParts(paths).audio_output_label) >>
                                 \o EncodingArgs ]
       ELSE [ built          |-> TRUE,
              inputs         |-> inputs,
              filter_complex |-> FALSE,
              graph          |-> <<>>,
              maps           |-> <<>>,
              plain_args     |-> video_filters,
              args           |-> InputArgs(paths)
                                 \o [k \in 1..Len(video_filters) |-> FilterW(video_filters[k])]
                                 \o EncodingArgs ]

----------------------------------------------------------------------------
(* Pre-flight: render.py:156-174 *)

Counts ==
    [ video_segments_count |-> Len(payload.video_segments),
      audio_tracks_count   |-> Len(payload.audio_files),
      subtitles_count      |-> Len(payload.subtitles) ]

\* db.get_project(project_id) is None: HTTPException(404)
ProjectNotFound ==
    /\ pc = "preflight"
    /\ ~env.project
    /\ pc' = "raised"
    /\ exc' = "HTTP404"
    /\ UNCHANGED <<runs, arg, ret, calls, loop, probe, env, payload, logWritable, tempDir, tempFiles, everTemp, audio_paths,
                   outputDir, outputFile, ffmpeg_cmd, logExists, log, engine,
                   engineStarts, returncode, result, trace>>

\* db.get_file(payload.video_file_id) is None: HTTPException(404)
VideoNotFound ==
    /\ pc = "preflight"
    /\ env.project
    /\ payload.video_file_id \notin StoredFiles
    /\ pc' = "raised"
    /\ exc' = "HTTP404"
    /\ UNCHANGED <<runs, arg, ret, calls, loop, probe, env, payload, logWritable, tempDir, tempFiles, everTemp, audio_paths,
                   outputDir, outputFile, ffmpeg_cmd, logExists, log, engine,
                   engineStarts, returncode, result, trace>>

\* shutil.which("ffmpeg") finds nothing: an error result, nothing created
EngineMissing ==
    /\ pc = "preflight"
    /\ env.project
    /\ payload.video_file_id \in StoredFiles
    /\ ~env.ffmpeg_path
    /\ pc' = "returned"
    /\ result' = [status |-> "error", message |-> "ffmpeg-not-installed",
                  log_file |-> FALSE, duration_seconds |-> "absent",
                  counts |-> Counts]
    /\ UNCHANGED <<runs, arg, ret, calls, loop, probe, env, payload, logWritable, tempDir, tempFiles, everTemp, audio_paths,
                   outputDir, outputFile, ffmpeg_cmd, logExists, log, engine,
                   engineStarts, returncode, exc, trace>>
\* faulty variant of EnterTempScope: the temporary directory opened before
\* the engine is looked up
EnterTempScopeBeforeEngineCheck ==
    /\ pc = "preflight"
    /\ env.project
    /\ payload.video_file_id \in StoredFiles
    /\ tempDir' = TRUE
    /\ pc' = "write_inputs"
    /\ trace' = <<"Preparing">>
    /\ UNCHANGED <<runs, arg, ret, calls, loop, probe, env, payload, logWritable, tempFiles, everTemp, audio_paths, outputDir,
                   outputFile, ffmpeg_cmd, logExists, log, engine, engineStarts,
                   returncode, result, exc>>

\* faulty variant of EnterTempScope: the temporary directory opened before
\* the video is looked up
EnterTempScopeBeforeVideoCheck ==
    /\ pc = "preflight"
    /\ env.project
    /\ env.ffmpeg_path
    /\ tempDir' = TRUE
    /\ pc' = "write_inputs"
    /\ trace' = <<"Preparing">>
    /\ UNCHANGED <<runs, arg, ret, calls, loop, probe, env, payload, logWritable, tempFiles, everTemp, audio_paths, outputDir,
                   outputFile, ffmpeg_cmd, logExists, log, engine, engineStarts,
                   returncode, result, exc>>

\* with tempfile.TemporaryDirectory() as temp_dir
EnterTempScope ==
    /\ pc = "preflight"
    /\ env.project
    /\ payload.video_file_id \in StoredFiles
    /\ env.ffmpeg_path
    /\ tempDir' = TRUE
    /\ pc' = "write_inputs"
    /\ trace' = <<"Preparing">>
    /\ UNCHANGED <<runs, arg, ret, calls, loop, probe, env, payload, logWritable, tempFiles, everTemp, audio_paths, outputDir,
                   outputFile, ffmpeg_cmd, logExists, log, engine, engineStarts,
                   returncode, result, exc>>

----------------------------------------------------------------------------
(* Inside the temporary scope: render.py:176-431 *)

\* An exception that is not caught inside render_video leaves the with-block
\* (the directory is removed) and reaches the caller.
Propagate(e) ==
    /\ LeaveTempScope
    /\ exc' = e
    /\ pc' = "raised"

\* render.py:179-214, every write succeeding
WriteInputs ==
    /\ pc = "write_inputs"
    /\ tempFiles' = Range(TempFileOrder)
    /\ everTemp' = Range(TempFileOrder)
    /\ audio_paths' = LoadAudio
    /\ pc' = "build"
    /\ UNCHANGED <<runs, arg, ret, calls, loop, probe, env, payload, logWritable, tempDir, outputDir, outputFile, ffmpeg_cmd,
                   logExists, log, engine, engineStarts, returncode, result,
                   exc, trace>>

\* render.py:179-214, the k+1-th write raising (OSError of write_bytes,
\* an error of _create_ass_subtitle_file or of b64decode)
WriteInputsFails ==
    /\ pc = "write_inputs"
    /\ \E k \in 0..(Len(TempFileOrder) - 1) :
          everTemp' = { TempFileOrder[j] : j \in 1..k }
    /\ Propagate("Exception")
    /\ UNCHANGED <<runs, arg, ret, calls, loop, probe, env, payload, logWritable, audio_paths, outputDir, outputFile, ffmpeg_cmd,
                   logExists, log, engine, engineStarts, returncode, result,
                   trace>>

\* render.py:326-345: with a clip loaded the tempo steps of every segment
\* are computed; for a rate that is not positive the loop of render.py:343
\* doubles current_rate without ever bringing it to 0.5
TempoLoopNeverEnds ==
    /\ Len(audio_paths) > 0
    /\ \E i \in 1..Len(payload.video_segments) :
          payload.video_segments[i].playbackRate.n <= 0

\* render.py:216-345: the output directory is made, then the handler stays
\* inside the while loop
EnterTempoLoop ==
    /\ pc = "build"
    /\ TempoLoopNeverEnds
    /\ outputDir' = TRUE
    /\ pc' = "tempo_loop"
    /\ UNCHANGED <<runs, arg, ret, calls, loop, probe, env, payload, logWritable, tempDir, tempFiles,
                   everTemp, audio_paths, outputFile, ffmpeg_cmd, logExists, log,
                   engine, engineStarts, returncode, result, exc, trace>>

\* render.py:216-431: output directory, command, log file path
AssembleCommand ==
    /\ pc = "build"
    /\ ~TempoLoopNeverEnds
    /\ outputDir' = TRUE
    /\ ffmpeg_cmd' = BuildCommand(audio_paths)
    /\ pc' = "open_log"
    /\ trace' = Append(trace, "Invoking")
    /\ UNCHANGED <<runs, arg, ret, calls, loop, probe, env, payload, logWritable, tempDir, tempFiles, everTemp, audio_paths,
                   outputFile, logExists, log, engine, engineStarts, returncode,
                   result, exc>>

\* render.py:221: mkdir raising OSError
MkdirFails ==
    /\ pc = "build"
    /\ Propagate("OSError")
    /\ UNCHANGED <<runs, arg, ret, calls, loop, probe, env, payload, logWritable, everTemp, audio_paths, outputDir, outputFile,
                   ffmpeg_cmd, logExists, log, engine, engineStarts, returncode,
                   result, trace>>

----------------------------------------------------------------------------
(* The try block: render.py:433-518.  Its only handler is                  *)
(* "except subprocess.TimeoutExpired" (render.py:520).                     *)

\* render.py:434-445
OpenLog ==
    /\ pc = "open_log"
    /\ logExists' = TRUE
    /\ log' = <<"header", "command", "output_heading">>
    /\ pc' = "run"
    /\ UNCHANGED <<runs, arg, ret, calls, loop, probe, env, payload, logWritable, tempDir, tempFiles, everTemp, audio_paths,
                   outputDir, outputFile, ffmpeg_cmd, engine, engineStarts,
                   returncode, result, exc, trace>>

\* render.py:434: open(log_file_path, "w") raising OSError
OpenLogFails ==
    /\ pc = "open_log"
    /\ Propagate("OSError")
    /\ UNCHANGED <<runs, arg, ret, calls, loop, probe, env, payload, logWritable, everTemp, audio_paths, outputDir, outputFile,
                   ffmpeg_cmd, logExists, log, engine, engineStarts, returncode,
                   result, trace>>

\* render.py:447: subprocess.run starts the process
StartEngine ==
    /\ pc = "run"
    /\ engine' = "running"
    /\ engineStarts' = engineStarts + 1
    /\ pc' = "waiting"
    /\ UNCHANGED <<runs, arg, ret, calls, loop, probe, env, payload, logWritable, tempDir, tempFiles, everTemp, audio_paths,
                   outputDir, outputFile, ffmpeg_cmd, logExists, log, returncode,
                   result, exc, trace>>

\* render.py:447: subprocess.run cannot start the process (OSError)
StartEngineFails ==
    /\ pc = "run"
    /\ Propagate("OSError")
    /\ UNCHANGED <<runs, arg, ret, calls, loop, probe, env, payload, logWritable, everTemp, audio_paths, outputDir, outputFile,
                   ffmpeg_cmd, logExists, log, engine, engineStarts, returncode,
                   result, trace>>

\* the engine exits within the timeout, with or without an output file;
\* while it ran the disk may have filled up, so that the log cannot be
\* appended to any more
EngineExits ==
    /\ pc = "waiting"
    /\ engine' = "exited"
    /\ \E rc \in {0, 1} : returncode' = rc
    /\ \E wrote \in BOOLEAN : outputFile' = wrote
    /\ \E w \in BOOLEAN : logWritable' = w
    /\ pc' = "append_log"
    /\ UNCHANGED <<runs, arg, ret, calls, loop, probe, env, payload, tempDir, tempFiles, everTemp, audio_paths,
                   outputDir, ffmpeg_cmd, logExists, log, engineStarts, result,
                   exc, trace>>

\* faulty variant of EngineTimesOut: the wait given up at the timeout with
\* the process left running, as Popen.wait(timeout) alone would do
EngineTimesOutNoKill ==
    /\ pc = "waiting"
    /\ engine' = engine
    /\ \E w \in BOOLEAN : logWritable' = w
    /\ pc' = "timeout_handler"
    /\ UNCHANGED <<runs, arg, ret, calls, loop, probe, env, payload, tempDir, tempFiles, everTemp, audio_paths,
                   outputDir, outputFile, ffmpeg_cmd, logExists, log,
                   engineStarts, returncode, result, exc, trace>>

\* render.py:447-453: the timeout expires; subprocess.run kills the process,
\* waits for it and raises TimeoutExpired
EngineTimesOut ==
    /\ pc = "waiting"
    /\ engine' = "killed"
    /\ \E w \in BOOLEAN : logWritable' = w
    /\ pc' = "timeout_handler"
    /\ UNCHANGED <<runs, arg, ret, calls, loop, probe, env, payload, tempDir, tempFiles, everTemp, audio_paths,
                   outputDir, outputFile, ffmpeg_cmd, logExists, log,
                   engineStarts, returncode, result, exc, trace>>
\* faulty variant of AppendOutput: the return code line left out of the log
AppendOutputNoReturnCode ==
    /\ pc = "append_log"
    /\ logWritable
    /\ log' = log \o <<"stdout", "stderr">>
    /\ pc' = "interpret"
    /\ UNCHANGED <<runs, arg, ret, calls, loop, probe, env, payload, logWritable, tempDir, tempFiles, everTemp, audio_paths,
                   outputDir, outputFile, ffmpeg_cmd, logExists, engine,
                   engineStarts, returncode, result, exc, trace>>

\* render.py:455-465
AppendOutput ==
    /\ pc = "append_log"
    /\ logWritable
    /\ log' = log \o <<"stdout", "stderr", "return_code">>
    /\ pc' = "interpret"
    /\ UNCHANGED <<runs, arg, ret, calls, loop, probe, env, payload, logWritable, tempDir, tempFiles, everTemp, audio_paths,
                   outputDir, outputFile, ffmpeg_cmd, logExists, engine,
                   engineStarts, returncode, result, exc, trace>>

\* render.py:458: open(log_file_path, "a") raising OSError
AppendOutputFails ==
    /\ pc = "append_log"
    /\ ~logWritable
    /\ Propagate("OSError")
    /\ UNCHANGED <<runs, arg, ret, calls, loop, probe, env, payload, logWritable, everTemp, audio_paths, outputDir, outputFile,
                   ffmpeg_cmd, logExists, log, engine, engineStarts, returncode,
                   result, trace>>

Return(r, state) ==
    /\ LeaveTempScope
    /\ result' = r
    /\ trace' = Append(trace, state)
    /\ pc' = "returned"

\* render.py:467-481
ReturnFailed ==
    /\ pc = "interpret"
    /\ returncode # 0
    /\ Return([status |-> "error", message |-> "ffmpeg-rendering-failed",
               log_file |-> TRUE, duration_seconds |-> "absent",
               counts |-> Counts], "Failed")
    /\ UNCHANGED <<runs, arg, ret, calls, loop, probe, env, payload, logWritable, everTemp, audio_paths, outputDir, outputFile,
                   ffmpeg_cmd, logExists, log, engine, engineStarts, returncode,
                   exc>>

\* render.py:483: output_path.stat() of a file the engine did not write
StatFails ==
    /\ pc = "interpret"
    /\ returncode = 0
    /\ ~outputFile
    /\ Propagate("FileNotFoundError")
    /\ UNCHANGED <<runs, arg, ret, calls, loop, probe, env, payload, logWritable, everTemp, audio_paths, outputDir, outputFile,
                   ffmpeg_cmd, logExists, log, engine, engineStarts, returncode,
                   result, trace>>

\* render.py:485-496: what running ffprobe on the output can do.  The
\* binary may be missing (subprocess.run raises), it may exit nonzero, and
\* its output may be something float() rejects.
ProbeOutcomes == {"not_started", "nonzero_exit", "not_a_number", "number"}

\* render.py:483-505: stat() of the output, then the probe inside
\* try / except Exception: pass
RunProbe ==
    /\ pc = "interpret"
    /\ returncode = 0
    /\ outputFile
    /\ \E o \in ProbeOutcomes : probe' = o
    /\ pc' = "probed"
    /\ UNCHANGED <<runs, arg, ret, calls, loop, env, payload, logWritable, tempDir, tempFiles, everTemp,
                   audio_paths, outputDir, outputFile, ffmpeg_cmd, logExists, log,
                   engine, engineStarts, returncode, result, exc, trace>>

\* render.py:486-503: subprocess.run is given no timeout for ffprobe; a
\* probe process that never exits keeps the handler inside the call
ProbeNeverExits ==
    /\ pc = "interpret"
    /\ returncode = 0
    /\ outputFile
    /\ probe' = "never_exits"
    /\ pc' = "probing"
    /\ UNCHANGED <<runs, arg, ret, calls, loop, env, payload, logWritable, tempDir, tempFiles, everTemp,
                   audio_paths, outputDir, outputFile, ffmpeg_cmd, logExists, log,
                   engine, engineStarts, returncode, result, exc, trace>>

\* render.py:497: duration = float(stdout) only when the probe exited 0 and
\* printed a number; it stays None otherwise
Duration == IF probe = "number" THEN "number" ELSE "null"

SuccessResult ==
    [status |-> "success", message |-> "rendered", output_path |-> TRUE,
     file_size |-> TRUE, log_file |-> TRUE, duration_seconds |-> Duration,
     counts |-> Counts]

\* faulty variant of ReturnSuccess: the probe outside any try block, so that
\* its failure leaves the handler as an exception
ReturnSuccessProbeUnguarded ==
    /\ pc = "probed"
    /\ IF probe = "number"
         THEN /\ Return(SuccessResult, "Succeeded")
              /\ exc' = exc
         ELSE /\ Propagate(IF probe = "not_started" THEN "OSError" ELSE "ValueError")
              /\ UNCHANGED <<result, trace>>
    /\ UNCHANGED <<runs, arg, ret, calls, loop, probe, env, payload, logWritable, everTemp, audio_paths,
                   outputDir, outputFile, ffmpeg_cmd, logExists, log, engine,
                   engineStarts, returncode>>

\* render.py:507-518
ReturnSuccess ==
    /\ pc = "probed"
    /\ Return(SuccessResult, "Succeeded")
    /\ UNCHANGED <<runs, arg, ret, calls, loop, probe, env, payload, logWritable, everTemp, audio_paths,
                   outputDir, outputFile, ffmpeg_cmd, logExists, log, engine,
                   engineStarts, returncode, exc>>

\* faulty variant of HandleTimeout: returning without writing the marker
HandleTimeoutNoMarker ==
    /\ pc = "timeout_handler"
    /\ log' = log
    /\ LeaveTempScope
    /\ result' = [status |-> "error", message |-> "rendering-timeout",
                  log_file |-> TRUE, duration_seconds |-> "absent",
                  counts |-> Counts]
    /\ trace' = Append(trace, "TimedOut")
    /\ pc' = "returned"
    /\ UNCHANGED <<runs, arg, ret, calls, loop, probe, env, payload, logWritable, everTemp, audio_paths, outputDir, outputFile,
                   ffmpeg_cmd, logExists, engine, engineStarts, returncode, exc>>

\* render.py:520-537: the marker is appended unless the append raises, which
\* is swallowed (render.py:526-527)
HandleTimeout ==
    /\ pc = "timeout_handler"
    /\ log' = IF logWritable THEN Append(log, "timeout_marker") ELSE log
    /\ Return([status |-> "error", message |-> "rendering-timeout",
               log_file |-> TRUE, duration_seconds |-> "absent",
               counts |-> Counts], "TimedOut")
    /\ UNCHANGED <<runs, arg, ret, calls, loop, probe, env, payload, logWritable, everTemp, audio_paths, outputDir, outputFile,
                   ffmpeg_cmd, logExists, engine, engineStarts, returncode, exc>>

Next ==
    \/ ProjectNotFound
    \/ VideoNotFound
    \/ EngineMissing
    \/ EnterTempScope
    \/ WriteInputs
    \/ WriteInputsFails
    \/ AssembleCommand
    \/ MkdirFails
    \/ OpenLog
    \/ OpenLogFails
    \/ StartEngine
    \/ StartEngineFails
    \/ EngineExits
    \/ EngineTimesOut
    \/ AppendOutput
    \/ AppendOutputFails
    \/ ReturnFailed
    \/ StatFails
    \/ RunProbe
    \/ ProbeNeverExits
    \/ ReturnSuccess
    \/ HandleTimeout

Spec == Init /\ [][Next]_vars

\* Every step that can be taken is eventually taken: a process that is going
\* to exit exits, the timeout given to subprocess.run expires, and the
\* handler goes on from one statement to the next.
FairSpec == Init /\ [][Next]_vars /\ WF_vars(Next)

\* the same call for requests outside the documented ranges
InitInvalid ==
    /\ env \in Envs
    /\ payload \in InvalidPayloads
    /\ InitCall

NextInvalid == Next \/ EnterTempoLoop

SpecInvalid == InitInvalid /\ [][NextInvalid]_vars

----------------------------------------------------------------------------
(* The server process: several calls.  render_video is declared async def  *)
(* (render.py:146), so the server runs it as a coroutine on its event loop *)
(* thread, and the function contains no await: from its first line to its  *)
(* return, the blocking subprocess.run of render.py:447 included, it keeps *)
(* that thread.  This specification follows only which call the thread is  *)
(* running; the variables of a single call stay as Init leaves them.       *)

callVars == <<pc, env, payload, tempDir, tempFiles, everTemp, audio_paths, outputDir,
              outputFile, ffmpeg_cmd, logExists, log, logWritable, engine,
              engineStarts, returncode, result, exc, trace, probe, runs, arg, ret>>

PlainPayload ==
    [video_file_id |-> "v1", video_segments |-> <<>>, subtitles |-> <<>>,
     audio_files |-> <<>>, hardsub_cover_box |-> NoBox, master_volume_db |-> 0,
     video_frame_url |-> FALSE]

InitServer ==
    /\ env = [project |-> TRUE, ffmpeg_path |-> TRUE]
    /\ payload = PlainPayload
    /\ InitCall

\* render.py:145: a POST for the route reaches the server
Receive(c) ==
    /\ calls[c] = "idle"
    /\ calls' = [calls EXCEPT ![c] = "received"]
    /\ UNCHANGED <<loop, callVars>>

\* render.py:146: the event loop starts the coroutine of a received call; it
\* can do so only when no other coroutine is running on its thread
StartHandler(c) ==
    /\ calls[c] = "received"
    /\ loop = 0
    /\ calls' = [calls EXCEPT ![c] = "preparing"]
    /\ loop' = c
    /\ UNCHANGED callVars

\* render.py:156-174: the call ends before any engine is started
HandlerEndsEarly(c) ==
    /\ calls[c] = "preparing"
    /\ loop = c
    /\ \E how \in {"returned", "raised"} : calls' = [calls EXCEPT ![c] = how]
    /\ loop' = 0
    /\ UNCHANGED callVars

\* render.py:447-453: subprocess.run blocks the calling thread until the
\* engine has exited or the timeout has expired
HandlerRunsEngine(c) ==
    /\ calls[c] = "preparing"
    /\ loop = c
    /\ calls' = [calls EXCEPT ![c] = "waiting"]
    /\ UNCHANGED <<loop, callVars>>

\* render.py:453: subprocess.run returns or raises
EngineReturns(c) ==
    /\ calls[c] = "waiting"
    /\ loop = c
    /\ calls' = [calls EXCEPT ![c] = "finishing"]
    /\ UNCHANGED <<loop, callVars>>

\* render.py:455-537: the result is returned, or an exception propagates
HandlerEnds(c) ==
    /\ calls[c] = "finishing"
    /\ loop = c
    /\ \E how \in {"returned", "raised"} : calls' = [calls EXCEPT ![c] = how]
    /\ loop' = 0
    /\ UNCHANGED callVars

NextServer ==
    \E c \in Calls :
        \/ Receive(c)
        \/ StartHandler(c)
        \/ HandlerEndsEarly(c)
        \/ HandlerRunsEngine(c)
        \/ EngineReturns(c)
        \/ HandlerEnds(c)

SpecServer == InitServer /\ [][NextServer]_vars

----------------------------------------------------------------------------
(* The functions of the subtitle compiler and the tempo steps, each        *)
(* applied on its own to an input drawn from a bounded set.  The variables *)
(* of the call stay as Init leaves them.                                   *)

MaxRateN == 8
MaxRateD == 8
MaxPercent == 12
MaxIterations == 5

REFERENCE_HEIGHT == 1080

\* A timestamp as srt_time.replace(",", ".").split(":") sees it: its fields,
\* each one a number float() accepts (v, in milliseconds for the seconds
\* field, in units for the others) or not a number.
Num(v) == [num |-> TRUE, v |-> v]
NotNum == [num |-> FALSE, v |-> 0]
Timestamp(h, m, ms) == << Num(h), Num(m), Num(ms) >>

WellFormedTimestamps ==
    { Timestamp(h, m, ms) : h \in {0, 1}, m \in {0, 59},
                            ms \in {0, 1005, 1994, 1999, 2500, 59990, 59999} }
MalformedTimestamps ==
    { << Num(0) >>, << Num(0), Num(1) >>, << Num(0), Num(0), Num(1), Num(0) >>,
      << NotNum, Num(0), Num(1000) >>, << Num(0), Num(0), NotNum >> }

\* render.py:94-101: 0.0 unless there are three fields; float() of a field
\* that is not a number raises ValueError
srt_time_to_seconds(parts) ==
    IF Len(parts) = 3
    THEN IF \A k \in 1..3 : parts[k].num
         THEN [raised |-> FALSE,
               ms |-> parts[1].v * 3600000 + parts[2].v * 60000 + parts[3].v]
         ELSE [raised |-> TRUE, ms |-> 0]
    ELSE [raised |-> FALSE, ms |-> 0]

\* the centiseconds "%05.2f" can print for a number of milliseconds below
\* one minute: the nearest, and either neighbour when the decimal value
\* lies half way, where the double that stands for it decides
RoundedCentiseconds(ms) ==
    IF ms % 10 < 5 THEN { ms \div 10 }
    ELSE IF ms % 10 > 5 THEN { ms \div 10 + 1 }
    ELSE { ms \div 10, ms \div 10 + 1 }

\* render.py:103-108: h:mm:ss.cc of a time in milliseconds, for one of the
\* centisecond counts the format can print; s may come out as 60
seconds_to_ass_time(ms, cs) ==
    [h |-> ms \div 3600000, m |-> (ms % 3600000) \div 60000,
     s |-> cs \div 100, cc |-> cs % 100]

\* render.py:82: int(REFERENCE_HEIGHT * vertical_margin_percent / 100)
vertical_margin(vertical_margin_percent) ==
    (REFERENCE_HEIGHT * vertical_margin_percent) \div 100

\* the rates a segment can carry: n / d
PositiveRates == { Rate(n, d) : n \in 1..MaxRateN, d \in 1..MaxRateD }
SlowRates == { r \in PositiveRates : 2 * r.n < r.d }
           \cup { Rate(0, 1), Rate(-1, 1), Rate(-1, 2) }

PureInputs ==
    { [fn |-> "tempo", in |-> r] : r \in PositiveRates }
    \cup { [fn |-> "doubling", in |-> r] : r \in SlowRates }
    \cup { [fn |-> "cue_time", in |-> t] : t \in WellFormedTimestamps \cup MalformedTimestamps }
    \cup { [fn |-> "margin", in |-> q] : q \in 0..MaxPercent }

\* a request whose only segment plays at the given rate
OneSegment(rate) ==
    [PlainPayload EXCEPT !.video_segments =
        << [sourceStartTime |-> 0, sourceEndTime |-> 5, playbackRate |-> rate] >>]

Returned(v) == [done |-> TRUE, raised |-> FALSE, val |-> v]
Raised == [done |-> TRUE, raised |-> TRUE, val |-> <<>>]

exceptRet == <<pc, env, payload, tempDir, tempFiles, everTemp, audio_paths, outputDir,
               outputFile, ffmpeg_cmd, logExists, log, logWritable, engine,
               engineStarts, returncode, result, exc, trace, probe, calls, loop,
               runs, arg>>

InitPure ==
    /\ arg \in PureInputs
    /\ env = [project |-> TRUE, ffmpeg_path |-> TRUE]
    /\ payload = IF arg.fn = "tempo" THEN OneSegment(arg.in) ELSE PlainPayload
    /\ InitHandler
    /\ calls = NoCalls
    /\ loop = 0
    /\ runs = NoRuns
    /\ ret = IF arg.fn = "doubling"
             THEN [done |-> FALSE, raised |-> FALSE,
                   val |-> [current_rate |-> arg.in, iterations |-> 0]]
             ELSE NoRet

\* render.py:330-349
ApplyTempo ==
    /\ arg.fn = "tempo"
    /\ ~ret.done
    /\ ret' = Returned(TempoSteps(arg.in))
    /\ UNCHANGED exceptRet

\* render.py:343-345: one turn of "while current_rate < 0.5", the list of
\* steps one longer and current_rate doubled
DoubleOnce ==
    /\ arg.fn = "doubling"
    /\ ~ret.done
    /\ 2 * ret.val.current_rate.n < ret.val.current_rate.d
    /\ ret.val.iterations < MaxIterations
    /\ ret' = [ret EXCEPT !.val.current_rate = Rate(2 * @.n, @.d),
                          !.val.iterations = @ + 1]
    /\ UNCHANGED exceptRet

\* render.py:343: the loop condition is false
LeaveDoubling ==
    /\ arg.fn = "doubling"
    /\ ~ret.done
    /\ ~(2 * ret.val.current_rate.n < ret.val.current_rate.d)
    /\ ret' = [ret EXCEPT !.done = TRUE]
    /\ UNCHANGED exceptRet

\* render.py:127-137: a cue time parsed and formatted
ApplyCueTime ==
    /\ arg.fn = "cue_time"
    /\ ~ret.done
    /\ LET seconds == srt_time_to_seconds(arg.in)
       IN IF seconds.raised
          THEN ret' = Raised
          ELSE \E cs \in RoundedCentiseconds(seconds.ms % 60000) :
                  ret' = Returned(seconds_to_ass_time(seconds.ms, cs))
    /\ UNCHANGED exceptRet

\* render.py:82
ApplyMargin ==
    /\ arg.fn = "margin"
    /\ ~ret.done
    /\ ret' = Returned(vertical_margin(arg.in))
    /\ UNCHANGED exceptRet

NextPure ==
    \/ ApplyTempo
    \/ DoubleOnce
    \/ LeaveDoubling
    \/ ApplyCueTime
    \/ ApplyMargin

SpecPure == InitPure /\ [][NextPure]_vars

----------------------------------------------------------------------------
(* Render calls in several server processes over one DATA_ROOT.  Within   *)
(* one process the calls follow one another (SpecServer); nothing in the   *)
(* handler depends on being alone on the data directory, so each process   *)
(* is followed through the statements that name and write the two files.   *)

MaxProcesses == 2
MaxClock == 2

Projects == {"p1", "p2"}
\* payload.output_filename: None, or a name the client gives
OutputFilenames == {"None", "final.mp4"}

NoPath == <<>>
IdleRun == [at |-> "idle", output_path |-> NoPath, log_path |-> NoPath]

\* render.py:216-220: DATA_ROOT / project_id / "rendered" / output_filename,
\* the name generated from utcnow() only when the request gives none
OutputPath(project_id, output_filename, now) ==
    IF output_filename # "None"
    THEN <<project_id, "rendered", output_filename>>
    ELSE <<project_id, "rendered", "rendered", project_id, now>>

\* render.py:431: output_path.parent / f"render_log_{utcnow().timestamp()}.txt"
LogPath(output_path, now) == <<output_path[1], output_path[2], "render_log", now>>

exceptRuns == <<pc, env, payload, tempDir, tempFiles, everTemp, audio_paths, outputDir,
                outputFile, ffmpeg_cmd, logExists, log, logWritable, engine,
                engineStarts, returncode, result, exc, trace, probe, calls, loop,
                arg, ret>>

InitProcesses ==
    /\ env = [project |-> TRUE, ffmpeg_path |-> TRUE]
    /\ payload = PlainPayload
    /\ InitHandler
    /\ calls = NoCalls
    /\ loop = 0
    /\ arg = NoArg
    /\ ret = NoRet
    /\ runs = [clock |-> 1, of |-> [w \in 1..MaxProcesses |-> IdleRun]]

\* the wall clock utcnow() reads
Tick ==
    /\ runs.clock < MaxClock
    /\ runs' = [runs EXCEPT !.clock = @ + 1]
    /\ UNCHANGED exceptRuns

\* render.py:216-221: a call in process w, its first or the one after the
\* last, names its output
NameOutput(w) ==
    /\ runs.of[w].at \in {"idle", "over"}
    /\ \E project_id \in Projects, output_filename \in OutputFilenames :
          runs' = [runs EXCEPT !.of[w] =
                     [at |-> "named",
                      output_path |-> OutputPath(project_id, output_filename, runs.clock),
                      log_path |-> NoPath]]
    /\ UNCHANGED exceptRuns

\* render.py:431-445: the log file is named and opened with mode "w"
OpenLogFile(w) ==
    /\ runs.of[w].at = "named"
    /\ runs' = [runs EXCEPT !.of[w].at = "logged",
                            !.of[w].log_path = LogPath(runs.of[w].output_path, runs.clock)]
    /\ UNCHANGED exceptRuns

\* render.py:447-453: the engine runs with output_path as its last argument
EngineWrites(w) ==
    /\ runs.of[w].at = "logged"
    /\ runs' = [runs EXCEPT !.of[w].at = "engine"]
    /\ UNCHANGED exceptRuns

\* render.py:453-481: the engine is over and its output is appended to the log
AppendLog(w) ==
    /\ runs.of[w].at = "engine"
    /\ runs' = [runs EXCEPT !.of[w].at = "appending"]
    /\ UNCHANGED exceptRuns

\* render.py:507-537: the call is over, its two files stay on disk
CallOver(w) ==
    /\ runs.of[w].at = "appending"
    /\ runs' = [runs EXCEPT !.of[w].at = "over"]
    /\ UNCHANGED exceptRuns

NextProcesses ==
    \/ Tick
    \/ \E w \in 1..MaxProcesses :
          \/ NameOutput(w)
          \/ OpenLogFile(w)
          \/ EngineWrites(w)
          \/ AppendLog(w)
          \/ CallOver(w)

SpecProcesses == InitProcesses /\ [][NextProcesses]_vars


----------------------------------------------------------------------------
(* Properties *)

Ended == pc \in {"returned", "raised"}
PreflightPasses ==
    env.project /\ payload.video_file_id \in StoredFiles /\ env.ffmpeg_path
NothingCreated ==
    /\ ~tempDir /\ tempFiles = {} /\ everTemp = {}
    /\ ~outputDir /\ ~outputFile
    /\ ~logExists /\ log = <<>>
    /\ engine = "none" /\ engineStarts = 0
Terminal == {"Succeeded", "Failed", "TimedOut"}
TimedOutReturned == pc = "returned" /\ result.message = "rendering-timeout"
LogHead == <<"header", "command", "output_heading">>

\* C1: when the call has ended, by a result or by an exception, no temporary
\* input it wrote is left on disk and the temporary directory is gone.
C1_TempInputsDeleted ==
    Ended => (tempFiles = {} /\ ~tempDir)

\* a call that wrote all four kinds of temporary input and ended by an
\* exception after the engine ran
C1_Witness ==
    /\ pc = "raised"
    /\ exc = "FileNotFoundError"
    /\ {<<"input", 0>>, <<"subtitles.ass", 0>>, <<"frame_overlay.png", 0>>} \subseteq everTemp
    /\ \E f \in everTemp : f[1] = "audio"
    /\ tempFiles = {}

\* C2: once the engine invocation is reached, the call ends with a structured
\* result carrying a status, never with an exception.
C2_NoExceptionFromInvocation ==
    (Ended /\ "Invoking" \in Range(trace))
        => (pc = "returned" /\ result.status \in {"success", "error"})

\* C3: a call that passed pre-flight has gone Preparing, Invoking and then
\* exactly one of Succeeded, Failed, TimedOut when it ends, and it started
\* the engine at most once.
C3_StateMachine ==
    /\ engineStarts <= 1
    /\ (Ended /\ PreflightPasses)
          => \E t \in Terminal : trace = <<"Preparing", "Invoking", t>>

\* C4 as stated: whenever the engine binary is not found, the call returns
\* status=error naming the missing engine and creates nothing.
C4_Original ==
    ~env.ffmpeg_path
        => /\ NothingCreated
           /\ Ended => /\ pc = "returned"
                       /\ result.status = "error"
                       /\ result.message = "ffmpeg-not-installed"

\* C4 amended: with the engine binary not found the call creates nothing
\* (no temporary directory or file, no output directory, no audit log, no
\* subprocess); it returns status=error naming the missing engine when the
\* project and the primary video exist, and raises the not-found error of
\* the pre-flight lookups otherwise.
C4_MissingEngine ==
    ~env.ffmpeg_path
        => /\ NothingCreated
           /\ Ended =>
                IF env.project /\ payload.video_file_id \in StoredFiles
                THEN /\ pc = "returned"
                     /\ result.status = "error"
                     /\ result.message = "ffmpeg-not-installed"
                ELSE pc = "raised" /\ exc = "HTTP404"

C4_Witness ==
    /\ pc = "returned"
    /\ ~env.ffmpeg_path
    /\ result.message = "ffmpeg-not-installed"
    /\ Len(payload.audio_files) > 0
    /\ Len(payload.subtitles) > 0

\* C5: a call for an unknown project, or whose primary video id is not in
\* storage, ends with the 404 error and has no side effect at any moment.
C5_PreflightNotFound ==
    (~env.project \/ payload.video_file_id \notin StoredFiles)
        => /\ NothingCreated
           /\ result = NoResult
           /\ Ended => (pc = "raised" /\ exc = "HTTP404")

C5_Witness ==
    /\ pc = "raised"
    /\ exc = "HTTP404"
    /\ env.project
    /\ env.ffmpeg_path
    /\ payload.video_file_id \notin StoredFiles

RECURSIVE DecomposeFast(_, _)
DecomposeFast(r, acc) ==
    IF r.n > 2 * r.d THEN DecomposeFast(Rate(r.n, 2 * r.d), Append(acc, Rate(2, 1)))
    ELSE <<r, acc>>

RECURSIVE DecomposeSlow(_, _)
DecomposeSlow(r, acc) ==
    IF 2 * r.n < r.d THEN DecomposeSlow(Rate(2 * r.n, r.d), Append(acc, Rate(1, 2)))
    ELSE <<r, acc>>

DecomposerSteps(rate) ==
    IF rate.n = rate.d THEN <<>>
    ELSE LET a == DecomposeFast(rate, <<>>)
             b == DecomposeSlow(a[1], a[2])
         IN IF b[1].n # b[1].d THEN Append(b[2], b[1]) ELSE b[2]

\* label "to" is computed from label "from" by the chains of graph g
RECURSIVE Feeds(_, _, _, _)
Feeds(g, from, to, fuel) ==
    \/ from = to
    \/ /\ fuel > 0
       /\ \E k \in 1..Len(g) :
             /\ from \in Range(g[k].ins)
             /\ \E o \in Range(g[k].outs) : Feeds(g, o, to, fuel - 1)

AudioOps == {"atrim", "asetpts", "atempo"}

\* C8: in every assembled command, with N >= 1 segments the output audio is
\* the concatenation of N audio chains that trim the source audio to the
\* bounds of segment i and retime it by the decomposer's tempo steps for its
\* rate, in segment order; with no segments no node trims or retimes audio.
C8_AudioMirrorsSegments ==
    ffmpeg_cmd.built =>
        LET segs == payload.video_segments
            N == Len(segs)
            g == ffmpeg_cmd.graph
        IN IF N >= 1
           THEN /\ ffmpeg_cmd.filter_complex
                /\ \A i \in 1..N : \E k \in 1..Len(g) :
                      /\ g[k].ins = <<InA(0)>>
                      /\ g[k].outs = <<SegA(i - 1)>>
                      /\ g[k].filters =
                            << F("atrim", <<segs[i].sourceStartTime, segs[i].sourceEndTime>>),
                               F("asetpts", <<>>) >>
                            \o [j \in 1..Len(DecomposerSteps(segs[i].playbackRate)) |->
                                  Atempo(DecomposerSteps(segs[i].playbackRate)[j])]
                /\ \E k \in 1..Len(g) :
                      /\ g[k].ins = [i \in 1..N |-> SegA(i - 1)]
                      /\ g[k].filters = << F("concat", <<N, 0, 1>>) >>
                      /\ Feeds(g, g[k].outs[1], ffmpeg_cmd.maps[2], Len(g))
           ELSE \A k \in 1..Len(g) : \A j \in 1..Len(g[k].filters) :
                   g[k].filters[j].op \notin AudioOps

\* C9: in every assembled command, a nonzero masterVolumeDb puts a master
\* gain node (a volume node of that gain) as the producer of the mapped
\* output audio, fed by the mix when clips are loaded; a zero masterVolumeDb
\* puts no master gain node in the command.
C9_MasterGainLast ==
    ffmpeg_cmd.built =>
        LET g == ffmpeg_cmd.graph
            IsGain(k) == /\ Len(g[k].filters) = 1
                         /\ g[k].filters[1].op = "volume"
        IN IF payload.master_volume_db # 0
           THEN /\ ffmpeg_cmd.filter_complex
                /\ \E k \in 1..Len(g) :
                      /\ IsGain(k)
                      /\ g[k].filters[1].args = <<LinearGain(payload.master_volume_db)>>
                      /\ g[k].outs = <<ffmpeg_cmd.maps[2]>>
                      /\ \A m \in 1..Len(g) : g[k].outs[1] \notin Range(g[m].ins)
                      /\ Len(audio_paths) > 0 =>
                            \E m \in 1..Len(g) :
                               /\ g[m].filters[1].op = "amix"
                               /\ g[m].outs = g[k].ins
           ELSE \A k \in 1..Len(g) : ~IsGain(k)

\* C10: a call that passes pre-flight and lists an audio clip whose id
\* storage does not have is refused with the not-found error when the clip
\* is looked up: no command is assembled from the remaining clips, the
\* engine is never started, no result is returned, and the only exception
\* that can end the call besides the 404 is a failed write of an earlier
\* temporary input.
C10_MissingClipNotFound ==
    (PreflightPasses /\ \E i \in 1..Len(payload.audio_files) :
                           payload.audio_files[i].id \notin StoredFiles)
        => /\ ~ffmpeg_cmd.built
           /\ engineStarts = 0
           /\ pc # "returned"
           /\ exc \in {"none", "HTTP404", "Exception"}

----------------------------------------------------------------------------
(* The outcome of a run that ended: probe, timeout                         *)

\* C11: once the engine exited with code 0 and the duration probe was run,
\* the call returns a success result whatever the probe did: the result
\* carries the output path, the byte size, the log path and the counts, and
\* its duration is a number only when the probe printed one, null when the
\* probe could not be started, exited nonzero or printed something else.
C11_ProbeFailureIsSwallowed ==
    /\ probe # "none" => returncode = 0 /\ pc \in {"probing", "probed", "returned"}
    /\ (probe # "none" /\ Ended) =>
          /\ pc = "returned"
          /\ exc = "none"
          /\ result.status = "success"
          /\ result.output_path /\ result.file_size /\ result.log_file
          /\ result.counts = Counts
          /\ result.duration_seconds = (IF probe = "number" THEN "number" ELSE "null")
          /\ trace[Len(trace)] = "Succeeded"

\* a call that returned success although ffprobe printed no number
C11_Witness ==
    /\ pc = "returned"
    /\ probe = "not_a_number"
    /\ returncode = 0
    /\ result.status = "success"
    /\ result.duration_seconds = "null"

\* C12: when the timeout expired the engine process is killed and waited
\* for before the handler goes on: the process runs only while the call is
\* inside subprocess.run, and a call that returned the timeout result left
\* no engine process behind.
C12_EngineKilledOnTimeout ==
    /\ engine = "running" => pc = "waiting"
    /\ TimedOutReturned => engine = "killed"
    /\ Ended => engine # "running"

\* a call whose engine was started once, timed out, and that has returned
C12_Witness ==
    /\ TimedOutReturned
    /\ engineStarts = 1
    /\ engine = "killed"
    /\ ~tempDir
    /\ trace = <<"Preparing", "Invoking", "TimedOut">>

----------------------------------------------------------------------------
(* Several calls                                                           *)

\* C13: render calls run concurrently: whenever one call is waiting for its
\* engine process and a second call has been received, the second call is
\* able to start; no call waits for another call to finish.
C13_CallsRunConcurrently ==
    \A c, d \in Calls :
        (c # d /\ calls[d] = "waiting" /\ calls[c] = "received")
            => ENABLED StartHandler(c)

----------------------------------------------------------------------------
(* Requests outside the documented ranges                                  *)

\* C14: a request with a playback rate that is not positive, or with an
\* enabled blur box whose percentages leave [0, 100], is rejected before any
\* temporary file is written or any graph node is built: the call writes no
\* temporary input, assembles no command, starts no engine, and returns no
\* success result.
C14_InvalidRequestRejected ==
    InvalidRequest(payload) =>
        /\ everTemp = {}
        /\ ~ffmpeg_cmd.built
        /\ engineStarts = 0
        /\ pc = "returned" => result.status = "error"

----------------------------------------------------------------------------
(* The serialized graph                                                    *)

\* The command is written once, by AssembleCommand, and no later step
\* changes it (CommandIsFinal); what holds of it in the state that follows
\* its assembly holds of it for the rest of the call.
Assembled == pc = "open_log" /\ ffmpeg_cmd.built
CommandIsFinal == [][ffmpeg_cmd.built => ffmpeg_cmd' = ffmpeg_cmd]_vars

IsInputLabel(l) == l[1] \in {"in:v", "in:a"}
IsAudioChain(c) ==
    \/ c.filters[1].op \in {"atrim", "volume", "adelay", "amix"}
    \/ c.filters[1].op = "concat" /\ c.filters[1].args[3] = 1
\* the labels the graph produces that no node of it consumes
FinalLabels(g, audio) ==
    { l \in UNION { Range(g[i].outs) : i \in { n \in 1..Len(g) : IsAudioChain(g[n]) = audio } } :
        \A j \in 1..Len(g) : l \notin Range(g[j].ins) }

\* C15: in every graph that is serialized, every node has filters, inputs
\* and outputs; every label a node consumes is a stream of an input the
\* command has, or was produced by an earlier node; no label is produced
\* twice; every label produced is consumed by a later node or mapped to the
\* output; there is exactly one final video label and at most one final
\* audio label, and the command maps them.
C15_LabelClosure ==
    (Assembled /\ ffmpeg_cmd.filter_complex) =>
        LET g == ffmpeg_cmd.graph
            n == Len(g)
        IN /\ n > 0
           /\ \A i \in 1..n :
                 /\ Len(g[i].filters) > 0 /\ Len(g[i].ins) > 0 /\ Len(g[i].outs) > 0
                 /\ \A l \in Range(g[i].ins) :
                       IF IsInputLabel(l)
                       THEN l[2] \in 0..(Len(ffmpeg_cmd.inputs) - 1)
                       ELSE \E j \in 1..(i - 1) : l \in Range(g[j].outs)
                 /\ \A l \in Range(g[i].outs) :
                       /\ ~IsInputLabel(l)
                       /\ \/ \E j \in (i + 1)..n : l \in Range(g[j].ins)
                          \/ l \in Range(ffmpeg_cmd.maps)
                 /\ \A a, b \in 1..Len(g[i].outs) : g[i].outs[a] = g[i].outs[b] => a = b
                 /\ \A j \in 1..n : j # i => Range(g[i].outs) \cap Range(g[j].outs) = {}
           /\ FinalLabels(g, FALSE) = {ffmpeg_cmd.maps[1]}
           /\ Cardinality(FinalLabels(g, TRUE)) <= 1
           /\ FinalLabels(g, TRUE) \subseteq {ffmpeg_cmd.maps[2]}

\* a graph with two segments, two clips, blur, overlay, subtitles and master
\* gain
C15_Witness ==
    /\ ffmpeg_cmd.built /\ ffmpeg_cmd.filter_complex
    /\ Len(payload.video_segments) = 2
    /\ Len(audio_paths) = 2
    /\ has_blur_region /\ payload.video_frame_url
    /\ Len(payload.subtitles) > 0
    /\ MasterGainSet
    /\ FinalLabels(ffmpeg_cmd.graph, FALSE) = {L("vout")}
    /\ FinalLabels(ffmpeg_cmd.graph, TRUE) = {L("aout")}

\* C16: for a request with N video segments the video part of the command
\* has N trim nodes, the i-th cutting the i-th segment, and for N > 1 one
\* concatenation node with n = N that takes the trimmed segments in request
\* order, for N <= 1 no concatenation node; this for every request,
\* whatever its clips, blur and overlay.
C16_SegmentNodes ==
    ffmpeg_cmd.built =>
        LET g == ffmpeg_cmd.graph
            segs == payload.video_segments
            N == Len(segs)
            trims == { i \in 1..Len(g) : g[i].filters[1].op = "trim" }
            concats == { i \in 1..Len(g) :
                           g[i].filters[1].op = "concat" /\ g[i].filters[1].args[2] = 1 }
        IN /\ Cardinality(trims) = N
           /\ \A k \in 1..N :
                 \E i \in trims :
                    /\ g[i].outs = <<SegV(k - 1)>>
                    /\ g[i].filters[1].args = <<segs[k].sourceStartTime, segs[k].sourceEndTime>>
           /\ N <= 1 => concats = {}
           /\ N > 1 => \E i \in 1..Len(g) :
                          /\ concats = {i}
                          /\ g[i].filters[1].args[1] = N
                          /\ g[i].ins = [k \in 1..N |-> SegV(k - 1)]

----------------------------------------------------------------------------
(* The path without a filter graph                                         *)

\* the filters of the video (audio) nodes of a graph, in graph order
RECURSIVE StepsFrom(_, _, _)
StepsFrom(g, i, audio) ==
    IF i > Len(g) THEN <<>>
    ELSE (IF IsAudioChain(g[i]) = audio THEN g[i].filters ELSE <<>>)
         \o StepsFrom(g, i + 1, audio)
VideoSteps(g) == StepsFrom(g, 1, FALSE)
AudioSteps(g) == StepsFrom(g, 1, TRUE)

\* the filters a command without a graph carries, in command order
FilterWords(args) ==
    LET fw == SelectSeq(args, LAMBDA x : x.w = "filter")
    IN [k \in 1..Len(fw) |-> fw[k].v]

\* C17: a command without a filter graph is assembled only for a request
\* with at most one segment, no audio clip, no blur region and no overlay,
\* and it carries the processing the full graph construction gives the same
\* request: the same video steps (segment trim and retime, normalization,
\* subtitle burn-in), and no audio step is lost (master gain).
C17_OptimizationPathEquivalent ==
    (ffmpeg_cmd.built /\ ~ffmpeg_cmd.filter_complex) =>
        /\ Len(payload.video_segments) <= 1
        /\ Len(payload.audio_files) = 0
        /\ ~has_blur_region
        /\ ~payload.video_frame_url
        /\ FilterWords(ffmpeg_cmd.args) = VideoSteps(FullGraph(audio_paths))
        /\ AudioSteps(FullGraph(audio_paths)) = <<>>

\* the request of scenario A
ScenarioA ==
    /\ Len(payload.video_segments) = 0
    /\ Len(payload.subtitles) = 0
    /\ Len(payload.audio_files) = 0
    /\ ~has_blur_region
    /\ ~payload.video_frame_url
    /\ ~MasterGainSet

\* the options by which the engine takes a chain of video filters; a word
\* that follows no option is read by the engine as an output file name
VideoFilterOptions == {"-vf", "-filter:v"}
GivenAsVideoFilter(args, k) ==
    \E j \in 1..(k - 1) :
        /\ args[j].w \in VideoFilterOptions
        /\ \A i \in (j + 1)..k : args[i].w = "filter"

\* C18: for a request with no segments, no cues, no clips, no blur, no
\* overlay and zero master gain, the command has no -filter_complex, no
\* graph and no audio branch, and its only processing steps are scale, pad
\* and frame rate, each given to the engine as a video filter.
C18_ScenarioA ==
    (ScenarioA /\ ffmpeg_cmd.built) =>
        /\ \A k \in 1..Len(ffmpeg_cmd.args) : ffmpeg_cmd.args[k].w # "-filter_complex"
        /\ ffmpeg_cmd.graph = <<>>
        /\ ffmpeg_cmd.maps = <<>>
        /\ FilterWords(ffmpeg_cmd.args)
             = << F("scale", <<1920, 1080>>), F("pad", <<1920, 1080>>), F("fps", <<30>>) >>
        /\ \A k \in 1..Len(ffmpeg_cmd.args) :
              ffmpeg_cmd.args[k].w = "filter" => GivenAsVideoFilter(ffmpeg_cmd.args, k)

----------------------------------------------------------------------------
(* The order of the video steps                                            *)

\* the step a filter of a video node belongs to: 1 segment trim / concat,
\* 2 normalization, 3 blur, 4 overlay image, 5 subtitle burn-in
Stage(c, f) ==
    CASE f.op \in {"trim", "setpts", "concat"} -> 1
      [] f.op \in {"pad", "fps"} -> 2
      [] f.op = "scale" ->
            IF c.ins[1][1] = "in:v" /\ c.ins[1][2] >= 1 THEN 4 ELSE 2
      [] f.op \in {"split", "crop", "boxblur"} -> 3
      [] f.op = "overlay" -> IF L("frame") \in Range(c.ins) THEN 4 ELSE 3
      [] f.op = "ass" -> 5

RECURSIVE StagesFrom(_, _)
StagesFrom(g, i) ==
    IF i > Len(g) THEN <<>>
    ELSE (IF IsAudioChain(g[i]) THEN <<>>
          ELSE [k \in 1..Len(g[i].filters) |-> Stage(g[i], g[i].filters[k])])
         \o StagesFrom(g, i + 1)

\* the steps of the video part of the assembled command, in command order
VideoStages ==
    IF ffmpeg_cmd.filter_complex
    THEN StagesFrom(ffmpeg_cmd.graph, 1)
    ELSE StagesFrom(<< Chain(<<InV(0)>>, FilterWords(ffmpeg_cmd.args), <<>>) >>, 1)

\* C19: in every assembled command, with a graph or without, the video
\* steps appear in the order segment trim / concat, normalization, blur,
\* overlay, subtitle burn-in; the three normalization steps are always
\* there, blur, overlay and burn-in exactly when the request has an enabled
\* box, an overlay image, cues; and the burn-in, when there, is the last
\* video step, in the node that writes the final video label.
C19_VideoStepOrder ==
    Assembled =>
        LET st == VideoStages
            g == ffmpeg_cmd.graph
        IN /\ \A a, b \in 1..Len(st) : a < b => st[a] <= st[b]
           /\ Cardinality({ k \in 1..Len(st) : st[k] = 2 }) = 3
           /\ (3 \in Range(st)) <=> has_blur_region
           /\ (4 \in Range(st)) <=> payload.video_frame_url
           /\ (5 \in Range(st)) <=> Len(payload.subtitles) > 0
           /\ (1 \in Range(st)) => Len(payload.video_segments) > 0
           /\ Len(payload.subtitles) > 0 =>
                 /\ st[Len(st)] = 5
                 /\ ffmpeg_cmd.filter_complex =>
                       \E i \in 1..Len(g) :
                          /\ g[i].outs = <<L("vout")>>
                          /\ g[i].filters[Len(g[i].filters)].op = "ass"

\* a graph in which all five steps are present
C19_Witness ==
    /\ ffmpeg_cmd.built /\ ffmpeg_cmd.filter_complex
    /\ Len(payload.video_segments) = 2
    /\ Range(VideoStages) = {1, 2, 3, 4, 5}
    /\ VideoStages[Len(VideoStages)] = 5

----------------------------------------------------------------------------
(* Inputs and the nodes that consume them                                  *)

\* the files the command names after -i, in command order
InputFileWords(args) ==
    LET at == SeqOfSet({ k \in 2..Len(args) : args[k - 1].w = "-i" })
    IN [j \in 1..Len(at) |-> args[at[j]].v]

\* C20: in every assembled command the inputs are the primary video at
\* index 0, then the file of each loaded clip in request order, then the
\* overlay image if there is one; the gain / delay node of the k-th loaded
\* clip consumes input k and carries that clip's own gain and start time,
\* the overlay scale node consumes input 1 + (number of clip inputs), and
\* no other node consumes an input beyond the primary video; also when
\* some requested clips were not loaded.
C20_InputIndices ==
    Assembled =>
        LET ins == InputFileWords(ffmpeg_cmd.args)
            g == ffmpeg_cmd.graph
            n == Cardinality(LoadedIdx)
            req == SeqOfSet(LoadedIdx)
            clipNodes == { i \in 1..Len(g) : g[i].ins[1][1] = "in:a" /\ g[i].ins[1][2] >= 1 }
            imageNodes == { i \in 1..Len(g) : g[i].ins[1][1] = "in:v" /\ g[i].ins[1][2] >= 1 }
        IN /\ ins = ffmpeg_cmd.inputs
           /\ Len(ins) = 1 + n + (IF payload.video_frame_url THEN 1 ELSE 0)
           /\ ins[1] = <<"input", 0>>
           /\ \A k \in 1..n : ins[k + 1] = <<"audio", req[k] - 1>>
           /\ payload.video_frame_url => ins[n + 2] = <<"frame_overlay.png", 0>>
           /\ ffmpeg_cmd.filter_complex =>
                 /\ Cardinality(clipNodes) = n
                 /\ \A k \in 1..n :
                       \E i \in clipNodes :
                          LET clip == payload.audio_files[req[k]]
                              ms == StartTimeMs(clip.startTime)
                          IN /\ g[i].ins = <<InA(k)>>
                             /\ g[i].outs = <<ClipA(k)>>
                             /\ g[i].filters[Len(g[i].filters)] = F("adelay", <<ms, ms>>)
                             /\ IF clip.volumeDb # 0
                                THEN g[i].filters
                                       = << F("volume", <<LinearGain(clip.volumeDb)>>),
                                            F("adelay", <<ms, ms>>) >>
                                ELSE Len(g[i].filters) = 1
                 /\ Cardinality(imageNodes) = (IF payload.video_frame_url THEN 1 ELSE 0)
                 /\ \A i \in imageNodes :
                       /\ g[i].ins = <<InV(1 + n)>>
                       /\ g[i].filters[1].op = "scale"
                       /\ ins[g[i].ins[1][2] + 1] = <<"frame_overlay.png", 0>>

\* a command for a request whose first clip was not loaded and whose second
\* was, with an overlay image
C20_Witness ==
    /\ ffmpeg_cmd.built /\ ffmpeg_cmd.filter_complex
    /\ Len(payload.audio_files) = 2
    /\ ~Loaded(1) /\ Loaded(2)
    /\ payload.video_frame_url
    /\ ffmpeg_cmd.inputs = << <<"input", 0>>, <<"audio", 1>>, <<"frame_overlay.png", 0>> >>
    /\ \E i \in 1..Len(ffmpeg_cmd.graph) : ffmpeg_cmd.graph[i].ins = <<InA(1)>>
    /\ \E i \in 1..Len(ffmpeg_cmd.graph) : ffmpeg_cmd.graph[i].ins = <<InV(2)>>

----------------------------------------------------------------------------
(* The audio branch: clips and mix                                         *)

C22_OneMixNode ==
    Assembled =>
        LET g == ffmpeg_cmd.graph
            n == Len(audio_paths)
            mixes == { i \in 1..Len(g) : \E k \in 1..Len(g[i].filters) :
                                            g[i].filters[k].op = "amix" }
            base == IF Len(payload.video_segments) > 0 THEN L("orig_audio") ELSE InA(0)
        IN /\ n = 0 => mixes = {}
           /\ n > 0 =>
                 /\ Cardinality(mixes) = 1
                 /\ \A i \in mixes :
                       /\ Len(g[i].filters) = 1
                       /\ g[i].ins = <<base>> \o [k \in 1..n |-> ClipA(k)]
                       /\ g[i].filters[1].args = <<n + 1>>
                       /\ g[i].filters[1].normalize = 0
                       /\ g[i].filters[1].duration = "longest"
                       /\ base = L("orig_audio") =>
                             \E j \in 1..(i - 1) :
                                /\ g[j].outs = <<base>>
                                /\ g[j].filters[1].op = "concat"
                                /\ g[j].ins = [k \in 1..Len(payload.video_segments) |-> SegA(k - 1)]
                       /\ \A k \in 1..n : \E j \in 1..(i - 1) : g[j].outs = <<ClipA(k)>>

\* a mix of the retimed base audio with two clips
C22_Witness ==
    /\ ffmpeg_cmd.built
    /\ Len(audio_paths) = 2
    /\ Len(payload.video_segments) = 2
    /\ \E i \in 1..Len(ffmpeg_cmd.graph) :
          /\ ffmpeg_cmd.graph[i].filters = << Amix(3) >>
          /\ ffmpeg_cmd.graph[i].ins = << L("orig_audio"), ClipA(1), ClipA(2) >>

----------------------------------------------------------------------------
(* The tempo steps                                                         *)

RECURSIVE StepProduct(_)
StepProduct(st) ==
    IF st = <<>> THEN Rate(1, 1)
    ELSE LET t == StepProduct(Tail(st))
         IN Rate(st[1].n * t.n, st[1].d * t.d)

WithinAtempoRange(r) == r.d <= 2 * r.n /\ r.n <= 2 * r.d

\* C23: for a rate r > 0 (outside [0.5, 2.0] in particular) every tempo step
\* emitted lies within [0.5, 2.0] and the product of the steps equals r; for
\* r = 1.0 no step is emitted.
C23_TempoStepsInRange ==
    arg.fn = "tempo" /\ ret.done =>
        LET r == arg.in
            st == ret.val
            prod == StepProduct(st)
        IN /\ \A k \in 1..Len(st) : WithinAtempoRange(st[k])
           /\ prod.n * r.d = r.n * prod.d
           /\ r.n = r.d => st = <<>>

C23_Witness ==
    /\ arg.fn = "tempo" /\ ret.done
    /\ arg.in = Rate(5, 1)
    /\ ret.val = << Rate(2, 1), Rate(2, 1), Rate(5, 4) >>

\* C24: for every rate r > 0 the tempo steps emitted are, in value, count
\* and order, those of the procedure "nothing if r = 1.0; one 2.0 per halving
\* while r > 2.0; one 0.5 per doubling while r < 0.5; then the remaining r if
\* it is not 1.0", and they follow the trim and the timestamp reset of the
\* segment's audio in that order, in one chain.
C24_TempoStepsAsSpecified ==
    arg.fn = "tempo" /\ ret.done =>
        LET st == DecomposerSteps(arg.in)
            trimmed == AudioSegmentParts.chains[1]
        IN /\ ret.val = st
           /\ trimmed.ins = <<InA(0)>>
           /\ trimmed.outs = <<SegA(0)>>
           /\ trimmed.filters =
                 << F("atrim", <<0, 5>>), F("asetpts", <<>>) >>
                 \o [k \in 1..Len(st) |-> Atempo(st[k])]

C24_Witness ==
    /\ arg.fn = "tempo" /\ ret.done
    /\ arg.in = Rate(1, 8)
    /\ ret.val = << Rate(1, 2), Rate(1, 2), Rate(4, 8) >>
    /\ Len(AudioSegmentParts.chains[1].filters) = 5

----------------------------------------------------------------------------
(* The subtitle compiler's conversions                                     *)

WellFormed(parts) == Len(parts) = 3 /\ \A k \in 1..3 : parts[k].num

\* C25: for every cue time HH:MM:SS,mmm the time written to the subtitle
\* document is H:MM:SS.cc with cc the milliseconds truncated to
\* centiseconds, in the same second: ,999 gives .99, never the next second.
C25_CueTimeTruncated ==
    arg.fn = "cue_time" /\ ret.done /\ WellFormed(arg.in) =>
        /\ ~ret.raised
        /\ ret.val = [h |-> arg.in[1].v, m |-> arg.in[2].v,
                      s |-> arg.in[3].v \div 1000,
                      cc |-> (arg.in[3].v % 1000) \div 10]

\* C26: for every malformed timestamp, with the wrong number of fields or
\* with a field that is not a number, srt_time_to_seconds returns 0.0 and
\* never raises, so the cue is written with the time 0:00:00.00.
C26_MalformedTimestampIsZero ==
    arg.fn = "cue_time" /\ ret.done /\ ~WellFormed(arg.in) =>
        /\ ~ret.raised
        /\ ret.val = [h |-> 0, m |-> 0, s |-> 0, cc |-> 0]

\* C27: for every vertical margin percentage p the margin in pixels is
\* round(1080 * p / 100), the nearest integer (p = 1 gives 11).
C27_MarginRounded ==
    arg.fn = "margin" /\ ret.done =>
        ret.val = (REFERENCE_HEIGHT * arg.in + 50) \div 100

\* C28: the doubling loop of the tempo steps ends for every playbackRate a
\* segment can carry, 0 and negative values included: every turn brings
\* current_rate closer to 0.5.
C28_DoublingLoopEnds ==
    [][DoubleOnce =>
         LET before == ret.val.current_rate
             after == ret'.val.current_rate
         IN after.d - 2 * after.n < before.d - 2 * before.n]_vars

----------------------------------------------------------------------------
(* Waiting for external processes                                          *)

\* C29: every call that started the engine eventually returns a result or
\* ends with an exception: no process the call waits for, engine or probe,
\* can hold it forever.
C29_StartedCallEnds == (engineStarts > 0) ~> Ended

----------------------------------------------------------------------------
(* Files of calls that run at the same time                                *)

\* C30: two render calls that run at the same time never have their
\* engines writing the same output file and never write the same log file,
\* also when both are for the same project with the same output name.
C30_FilesNotShared ==
    \A v, w \in 1..MaxProcesses :
        v # w =>
            /\ ~ /\ runs.of[v].at = "engine"
                 /\ runs.of[w].at = "engine"
                 /\ runs.of[v].output_path = runs.of[w].output_path
            /\ ~ /\ runs.of[v].at \in {"logged", "engine", "appending"}
                 /\ runs.of[w].at \in {"logged", "engine", "appending"}
                 /\ runs.of[v].log_path = runs.of[w].log_path

============================================================================
